---- MODULE Spec2Model ----
(***************************************************************************)
(* A model of backend.py, the AayuCare POC API: the three JSON endpoints   *)
(* (/api/health, /api/speech-to-text, /api/find-doctor), the module-level  *)
(* keys and client, and the parsing the find-doctor handler does on the    *)
(* replies of the generative-language provider.                            *)
(*                                                                         *)
(* Python str values are sequences of one-character strings, so that       *)
(* lower(), strip(), split(), replace(), startswith(), "in" and float()    *)
(* are computed character by character.  A float is kept as an integer     *)
(* number of 1/Scale units.  Python's None is the record None; a value     *)
(* that may be None or a str is boxed with Str.  The locals of one running *)
(* handler are a record that gains a field when the code binds the name.   *)
(***************************************************************************)
EXTENDS Integers, Sequences, FiniteSets, TLC

VARIABLES GEMINI_API_KEY, SARVAM_API_KEY, gemini_client, endpoint, pc, local, calls, resp

vars == <<GEMINI_API_KEY, SARVAM_API_KEY, gemini_client, endpoint, pc, local, calls, resp>>

globals == <<GEMINI_API_KEY, SARVAM_API_KEY, gemini_client>>

(***************************************************************************)
(* Python values                                                           *)
(***************************************************************************)
None == [kind |-> "None"]

Str(s) == [kind |-> "str", val |-> s]

\* a name = value binding added to the locals of a handler
Bind(env, new) == new @@ env

(***************************************************************************)
(* str methods                                                             *)
(***************************************************************************)
UpperLetters == <<"A","B","C","D","E","F","G","H","I","J","K","L","M","N","O","P","Q","R","S","T","U","V","W","X","Y","Z">>

LowerLetters == <<"a","b","c","d","e","f","g","h","i","j","k","l","m","n","o","p","q","r","s","t","u","v","w","x","y","z">>

LowerChar(c) ==
    IF \E i \in 1..Len(UpperLetters) : UpperLetters[i] = c
    THEN LowerLetters[CHOOSE i \in 1..Len(UpperLetters) : UpperLetters[i] = c]
    ELSE c

\* s.lower()
Lower(s) == [i \in 1..Len(s) |-> LowerChar(s[i])]

\* s.startswith(p)
StartsWith(s, p) == Len(s) >= Len(p) /\ SubSeq(s, 1, Len(p)) = p

\* sub in s
RECURSIVE Contains(_, _)
Contains(s, sub) ==
    IF Len(s) < Len(sub) THEN FALSE
    ELSE IF StartsWith(s, sub) THEN TRUE
    ELSE Contains(Tail(s), sub)

\* s.replace(old, new): every non-overlapping occurrence, left to right
RECURSIVE Replace(_, _, _)
Replace(s, old, new) ==
    IF Len(s) < Len(old) \/ Len(s) = 0 THEN s
    ELSE IF StartsWith(s, old)
         THEN new \o Replace(SubSeq(s, Len(old) + 1, Len(s)), old, new)
         ELSE <<Head(s)>> \o Replace(Tail(s), old, new)

Whitespace == {" ", "\t", "\n", "\r"}

RECURSIVE LStrip(_)
LStrip(s) == IF Len(s) > 0 /\ Head(s) \in Whitespace THEN LStrip(Tail(s)) ELSE s

RECURSIVE RStrip(_)
RStrip(s) ==
    IF Len(s) > 0 /\ s[Len(s)] \in Whitespace THEN RStrip(SubSeq(s, 1, Len(s) - 1)) ELSE s

\* s.strip()
Strip(s) == RStrip(LStrip(s))

\* s.split(sep) for a one-character sep: "" splits into [""]
RECURSIVE Split(_, _)
Split(s, sep) ==
    IF \A i \in 1..Len(s) : s[i] # sep THEN <<s>>
    ELSE LET k == CHOOSE i \in 1..Len(s) : s[i] = sep /\ \A j \in 1..(i - 1) : s[j] # sep
         IN  <<SubSeq(s, 1, k - 1)>> \o Split(SubSeq(s, k + 1, Len(s)), sep)

RECURSIVE Join(_, _)
Join(parts, sep) ==
    IF Len(parts) = 0 THEN <<>>
    ELSE IF Len(parts) = 1 THEN parts[1]
    ELSE parts[1] \o sep \o Join(Tail(parts), sep)

(***************************************************************************)
(* float(s) and str(n)                                                     *)
(***************************************************************************)
Scale == 10000

DigitChars == <<"0","1","2","3","4","5","6","7","8","9">>

IsDigit(c) == \E i \in 1..10 : DigitChars[i] = c

DigitVal(c) == (CHOOSE i \in 1..10 : DigitChars[i] = c) - 1

RECURSIVE ToNat(_)
ToNat(ds) == IF Len(ds) = 0 THEN 0 ELSE 10 * ToNat(SubSeq(ds, 1, Len(ds) - 1)) + DigitVal(ds[Len(ds)])

AllDigits(ds) == \A i \in 1..Len(ds) : IsDigit(ds[i])

\* the first four fractional digits, in 1/Scale units
FracUnits(ds) == ToNat(SubSeq(ds \o <<"0","0","0","0">>, 1, 4))

\* float(s) on [sign] digits [. digits]: [ok |-> FALSE] stands for ValueError
Float(s) ==
    LET t     == Strip(s)
        neg   == Len(t) > 0 /\ Head(t) = "-"
        body  == IF Len(t) > 0 /\ Head(t) \in {"-", "+"} THEN Tail(t) ELSE t
        dots  == {i \in 1..Len(body) : body[i] = "."}
        k     == IF dots = {} THEN Len(body) + 1 ELSE CHOOSE i \in dots : TRUE
        ip    == SubSeq(body, 1, k - 1)
        fp    == SubSeq(body, k + 1, Len(body))
        wellf == /\ Cardinality(dots) <= 1
                 /\ AllDigits(ip) /\ AllDigits(fp)
                 /\ Len(ip) + Len(fp) > 0
        mag   == ToNat(ip) * Scale + FracUnits(fp)
    IN  IF wellf THEN [ok |-> TRUE, val |-> IF neg THEN 0 - mag ELSE mag]
        ELSE [ok |-> FALSE]

\* str(n) for n >= 0
RECURSIVE IntStr(_)
IntStr(n) == IF n < 10 THEN <<DigitChars[n + 1]>> ELSE IntStr(n \div 10) \o <<DigitChars[(n % 10) + 1]>>

(***************************************************************************)
(* Objects of the provider SDK: hasattr(o, a) is a \in DOMAIN o, a list is *)
(* List(items), and the truth value of an attribute is IsTrue.             *)
(***************************************************************************)
List(items) == [kind |-> "list", items |-> items]

HasAttr(o, a) == a \in DOMAIN o

IsTrue(v) ==
    CASE v.kind = "None" -> FALSE
      [] v.kind = "list" -> Len(v.items) > 0
      [] v.kind = "str"  -> Len(v.val) > 0
      [] OTHER           -> TRUE

(***************************************************************************)
(* find_doctor: parsing of the extraction reply (lines 166-187)            *)
(***************************************************************************)
DefaultSymptoms == <<"G","e","n","e","r","a","l"," ","s","y","m","p","t","o","m","s">>

DefaultLocation == <<"M","u","m","b","a","i">>

\* 19.0760 and 72.8777 in 1/Scale units
DefaultLatitude == 190760

DefaultLongitude == 728777

ExtractionDefaults ==
    [symptoms |-> DefaultSymptoms, location |-> DefaultLocation,
     latitude |-> DefaultLatitude, longitude |-> DefaultLongitude]

\* ParseLine matching the labels whatever their letter case
ParseLine_AnyCase(f, raw) ==
    LET line == Strip(raw)
        up   == [i \in 1..Len(line) |->
                    IF \E n \in 1..26 : LowerLetters[n] = line[i]
                    THEN UpperLetters[CHOOSE n \in 1..26 : LowerLetters[n] = line[i]]
                    ELSE line[i]]
        rest == Strip(SubSeq(line, 10, Len(line)))
    IN
    IF StartsWith(up, <<"S","Y","M","P","T","O","M","S",":">>) THEN [f EXCEPT !.symptoms = rest]
    ELSE IF StartsWith(up, <<"L","O","C","A","T","I","O","N",":">>) THEN [f EXCEPT !.location = rest]
    ELSE IF StartsWith(up, <<"L","A","T","I","T","U","D","E",":">>)
    THEN LET v == Float(rest) IN IF v.ok THEN [f EXCEPT !.latitude = v.val] ELSE f
    ELSE IF StartsWith(up, <<"L","O","N","G","I","T","U","D","E",":">>)
    THEN LET v == Float(Strip(SubSeq(line, 11, Len(line))))
         IN  IF v.ok THEN [f EXCEPT !.longitude = v.val] ELSE f
    ELSE f

\* ParseLine putting the default back when float() fails
ParseLine_ResetOnError(f, raw) ==
    LET line == Strip(raw) IN
    IF StartsWith(line, <<"S","Y","M","P","T","O","M","S",":">>)
    THEN [f EXCEPT !.symptoms = Strip(Replace(line, <<"S","Y","M","P","T","O","M","S",":">>, <<>>))]
    ELSE IF StartsWith(line, <<"L","O","C","A","T","I","O","N",":">>)
    THEN [f EXCEPT !.location = Strip(Replace(line, <<"L","O","C","A","T","I","O","N",":">>, <<>>))]
    ELSE IF StartsWith(line, <<"L","A","T","I","T","U","D","E",":">>)
    THEN LET v == Float(Strip(Replace(line, <<"L","A","T","I","T","U","D","E",":">>, <<>>)))
         IN  [f EXCEPT !.latitude = IF v.ok THEN v.val ELSE DefaultLatitude]
    ELSE IF StartsWith(line, <<"L","O","N","G","I","T","U","D","E",":">>)
    THEN LET v == Float(Strip(Replace(line, <<"L","O","N","G","I","T","U","D","E",":">>, <<>>)))
         IN  [f EXCEPT !.longitude = IF v.ok THEN v.val ELSE DefaultLongitude]
    ELSE f

\* one pass of the loop body: the if/elif chain on one line of the reply
ParseLine(f, raw) ==
    LET line == Strip(raw) IN
    IF StartsWith(line, <<"S","Y","M","P","T","O","M","S",":">>)
    THEN [f EXCEPT !.symptoms = Strip(Replace(line, <<"S","Y","M","P","T","O","M","S",":">>, <<>>))]
    ELSE IF StartsWith(line, <<"L","O","C","A","T","I","O","N",":">>)
    THEN [f EXCEPT !.location = Strip(Replace(line, <<"L","O","C","A","T","I","O","N",":">>, <<>>))]
    ELSE IF StartsWith(line, <<"L","A","T","I","T","U","D","E",":">>)
    THEN LET v == Float(Strip(Replace(line, <<"L","A","T","I","T","U","D","E",":">>, <<>>)))
         IN  IF v.ok THEN [f EXCEPT !.latitude = v.val] ELSE f
    ELSE IF StartsWith(line, <<"L","O","N","G","I","T","U","D","E",":">>)
    THEN LET v == Float(Strip(Replace(line, <<"L","O","N","G","I","T","U","D","E",":">>, <<>>)))
         IN  IF v.ok THEN [f EXCEPT !.longitude = v.val] ELSE f
    ELSE f

RECURSIVE ParseLines(_, _)
ParseLines(f, lines) ==
    IF Len(lines) = 0 THEN f ELSE ParseLines(ParseLine(f, Head(lines)), Tail(lines))

\* the four locals after the loop over extraction_text.split("\n")
ParseExtraction(extraction_text) == ParseLines(ExtractionDefaults, Split(extraction_text, "\n"))

(***************************************************************************)
(* find_doctor: the doctor type (lines 217-230)                            *)
(***************************************************************************)
\* DoctorType searching the reply as written, without lower()
DoctorType_CaseSensitive(ai_response) ==
    LET low == ai_response IN
    IF Contains(low, <<"c","a","r","d","i","o","l","o","g","i","s","t">>) THEN <<"C","a","r","d","i","o","l","o","g","i","s","t">>
    ELSE IF Contains(low, <<"d","e","r","m","a","t","o","l","o","g","i","s","t">>) THEN <<"D","e","r","m","a","t","o","l","o","g","i","s","t">>
    ELSE IF Contains(low, <<"o","r","t","h","o","p","e","d","i","c">>) THEN <<"O","r","t","h","o","p","e","d","i","c">>
    ELSE IF Contains(low, <<"n","e","u","r","o","l","o","g","i","s","t">>) THEN <<"N","e","u","r","o","l","o","g","i","s","t">>
    ELSE IF Contains(low, <<"e","n","t">>) \/ Contains(low, <<"e","a","r">>) THEN <<"E","N","T"," ","S","p","e","c","i","a","l","i","s","t">>
    ELSE IF Contains(low, <<"p","e","d","i","a","t","r","i","c","i","a","n">>) THEN <<"P","e","d","i","a","t","r","i","c","i","a","n">>
    ELSE <<"G","e","n","e","r","a","l"," ","P","h","y","s","i","c","i","a","n">>

DoctorType(ai_response) ==
    LET low == Lower(ai_response) IN
    IF Contains(low, <<"c","a","r","d","i","o","l","o","g","i","s","t">>) THEN <<"C","a","r","d","i","o","l","o","g","i","s","t">>
    ELSE IF Contains(low, <<"d","e","r","m","a","t","o","l","o","g","i","s","t">>) THEN <<"D","e","r","m","a","t","o","l","o","g","i","s","t">>
    ELSE IF Contains(low, <<"o","r","t","h","o","p","e","d","i","c">>) THEN <<"O","r","t","h","o","p","e","d","i","c">>
    ELSE IF Contains(low, <<"n","e","u","r","o","l","o","g","i","s","t">>) THEN <<"N","e","u","r","o","l","o","g","i","s","t">>
    ELSE IF Contains(low, <<"e","n","t">>) \/ Contains(low, <<"e","a","r">>) THEN <<"E","N","T"," ","S","p","e","c","i","a","l","i","s","t">>
    ELSE IF Contains(low, <<"p","e","d","i","a","t","r","i","c","i","a","n">>) THEN <<"P","e","d","i","a","t","r","i","c","i","a","n">>
    ELSE <<"G","e","n","e","r","a","l"," ","P","h","y","s","i","c","i","a","n">>

(***************************************************************************)
(* find_doctor: the nearby doctors (lines 248-290)                         *)
(***************************************************************************)
\* the slice limit of grounding_chunks[:5]
TopChunks == 5

ChunkHasMaps(chunk) == HasAttr(chunk, "maps") /\ IsTrue(chunk.maps)

\* doctor_info of one chunk that carries map data
DoctorInfo(maps, location) ==
    [name     |-> IF HasAttr(maps, "title") THEN maps.title ELSE Str(<<"M","e","d","i","c","a","l"," ","C","e","n","t","e","r">>),
     address  |-> location,
     distance |-> <<"S","e","e"," ","G","o","o","g","l","e"," ","M","a","p","s">>,
     rating   |-> 45 * (Scale \div 10),
     open     |-> <<"S","e","e"," ","G","o","o","g","l","e"," ","M","a","p","s"," ","f","o","r"," ","h","o","u","r","s">>,
     url      |-> IF HasAttr(maps, "uri") THEN maps.uri ELSE Str(<<>>)]

RECURSIVE GroundedFrom(_, _)
GroundedFrom(chunks, location) ==
    IF Len(chunks) = 0 THEN <<>>
    ELSE (IF ChunkHasMaps(Head(chunks)) THEN <<DoctorInfo(Head(chunks).maps, location)>> ELSE <<>>)
         \o GroundedFrom(Tail(chunks), location)

\* the chunk list the loop runs over: empty unless every nested test passes
ChunksOf(maps_response) ==
    IF ~(HasAttr(maps_response, "candidates") /\ IsTrue(maps_response.candidates)) THEN <<>>
    ELSE LET candidate == maps_response.candidates.items[1] IN
         IF ~(HasAttr(candidate, "grounding_metadata") /\ IsTrue(candidate.grounding_metadata))
         THEN <<>>
         ELSE LET grounding == candidate.grounding_metadata IN
              IF ~(HasAttr(grounding, "grounding_chunks") /\ IsTrue(grounding.grounding_chunks))
              THEN <<>>
              ELSE grounding.grounding_chunks.items

\* Sliced without the [:5]
Sliced_All(chunks) == chunks

\* grounding.grounding_chunks[:5]
Sliced(chunks) == SubSeq(chunks, 1, IF Len(chunks) < TopChunks THEN Len(chunks) ELSE TopChunks)

Grounded(maps_response, location) == GroundedFrom(Sliced(ChunksOf(maps_response)), location)

\* SearchUrl with the location as extracted
SearchUrl_NoReplace(doctor_type, location) ==
    <<"h","t","t","p","s",":","/","/","w","w","w",".","g","o","o","g","l","e",".","c","o","m","/","m","a","p","s","/","s","e","a","r","c","h","/">> \o doctor_type \o <<"+","n","e","a","r","+">> \o location

SearchUrl(doctor_type, location) ==
    <<"h","t","t","p","s",":","/","/","w","w","w",".","g","o","o","g","l","e",".","c","o","m","/","m","a","p","s","/","s","e","a","r","c","h","/">> \o doctor_type \o <<"+","n","e","a","r","+">>
        \o Replace(location, <<" ">>, <<"+">>)

FallbackEntry(doctor_type, location) ==
    [name     |-> Str(<<"S","e","a","r","c","h"," ">> \o doctor_type \o <<" ","i","n"," ">> \o location),
     address  |-> location,
     distance |-> <<"C","l","i","c","k"," ","t","o"," ","s","e","a","r","c","h">>,
     rating   |-> 0,
     open     |-> <<"S","e","a","r","c","h"," ","o","n"," ","G","o","o","g","l","e"," ","M","a","p","s">>,
     url      |-> Str(SearchUrl(doctor_type, location))]

NearbyDoctors(maps_response, doctor_type, location) ==
    LET grounded == Grounded(maps_response, location) IN
    IF Len(grounded) = 0 THEN <<FallbackEntry(doctor_type, location)>> ELSE grounded

(***************************************************************************)
(* Responses and outbound calls                                            *)
(***************************************************************************)
\* raise HTTPException(status_code=..., detail=...)
HTTPError(status_code, detail) == [status_code |-> status_code, detail |-> detail]

\* a returned dict, sent with status 200
Ok(body) == [status_code |-> 200, body |-> body]

\* one outbound call of a handler: the provider API and what the handler put in it
Call(api, args) == [api |-> api, args |-> args]

SarvamKeyMissing == <<"S","a","r","v","a","m"," ","A","P","I"," ","k","e","y"," ","n","o","t"," ","c","o","n","f","i","g","u","r","e","d","."," ","P","l","e","a","s","e"," ","a","d","d"," ","S","A","R","V","A","M","_","A","P","I","_","K","E","Y"," ","t","o"," ",".","e","n","v"," ","f","i","l","e">>

GeminiKeyMissing == <<"G","e","m","i","n","i"," ","A","P","I"," ","k","e","y"," ","n","o","t"," ","c","o","n","f","i","g","u","r","e","d","."," ","P","l","e","a","s","e"," ","a","d","d"," ","G","E","M","I","N","I","_","A","P","I","_","K","E","Y"," ","t","o"," ",".","e","n","v"," ","f","i","l","e">>

\* what the provider SDK or requests raises, or an attribute access on None
Raised(text) == [kind |-> "raise", text |-> text]

NoAttribute(attr) == <<"'","N","o","n","e","T","y","p","e","'"," ","o","b","j","e","c","t"," ","h","a","s"," ","n","o"," ","a","t","t","r","i","b","u","t","e"," ","'">> \o attr \o <<"'">>

(***************************************************************************)
(* Startup (lines 27-43) and the request lifecycle                         *)
(***************************************************************************)
\* os.getenv: unset, set to "", or set to a key
EnvValues == {None, Str(<<>>), Str(<<"k","3","y">>)}

\* NotConfigured written as "KEY is None": an empty key counts as configured
NotConfigured_IsNone(key) == key = None

\* "if not KEY": the key is unset or empty (lines 29, 39, 78, 140)
NotConfigured(key) == ~IsTrue(key)

\* lines 28-34
ClientFor(key) == IF NotConfigured(key) THEN None ELSE [kind |-> "obj", api_key |-> key]

Startup(Reqs) ==
    /\ GEMINI_API_KEY \in EnvValues
    /\ SARVAM_API_KEY \in EnvValues
    /\ gemini_client = ClientFor(GEMINI_API_KEY)
    /\ endpoint = [r \in Reqs |-> "none"]
    /\ pc = [r \in Reqs |-> "idle"]
    /\ local = [r \in Reqs |-> <<>>]
    /\ calls = [r \in Reqs |-> <<>>]
    /\ resp = [r \in Reqs |-> None]

\* the multipart upload of a speech-to-text request
Upload ==
    [filename |-> <<"a",".","w","a","v">>, content |-> <<"R","I","F","F">>, content_type |-> <<"a","u","d","i","o","/","w","a","v">>]

\* the arguments the framework binds for a handler: request (a SymptomRequest),
\* audio (an UploadFile), or nothing
RequestsFor(ep, Inputs) ==
    IF ep = "find_doctor" THEN {[request |-> [input |-> i]] : i \in Inputs}
    ELSE IF ep = "speech_to_text" THEN {[audio |-> Upload]}
    ELSE {<<>>}

\* the framework routes a request to its handler, with the request as its argument
Accept(r, Endpoints, Inputs) ==
    /\ pc[r] = "idle"
    /\ \E ep \in Endpoints :
          /\ endpoint' = [endpoint EXCEPT ![r] = ep]
          /\ \E rq \in RequestsFor(ep, Inputs) : local' = [local EXCEPT ![r] = rq]
    /\ pc' = [pc EXCEPT ![r] = "enter"]
    /\ calls' = [calls EXCEPT ![r] = <<>>]
    /\ resp' = [resp EXCEPT ![r] = None]
    /\ UNCHANGED globals

\* the response is sent and the handler's frame is gone
Finish(r) ==
    /\ pc[r] = "done"
    /\ pc' = [pc EXCEPT ![r] = "idle"]
    /\ endpoint' = [endpoint EXCEPT ![r] = "none"]
    /\ local' = [local EXCEPT ![r] = <<>>]
    /\ calls' = [calls EXCEPT ![r] = <<>>]
    /\ resp' = [resp EXCEPT ![r] = None]
    /\ UNCHANGED globals

\* a handler ends with a response
Respond(r, response) ==
    /\ resp' = [resp EXCEPT ![r] = response]
    /\ pc' = [pc EXCEPT ![r] = "done"]

(***************************************************************************)
(* GET /api/health (lines 59-67)                                           *)
(***************************************************************************)
\* HealthBody reporting "is not None" instead of bool(KEY)
HealthBody_IsNotNone ==
    [status            |-> <<"h","e","a","l","t","h","y">>,
     message           |-> <<"A","a","y","u","C","a","r","e"," ","P","O","C"," ","A","P","I"," ","i","s"," ","r","u","n","n","i","n","g","!">>,
     gemini_configured |-> GEMINI_API_KEY # None,
     sarvam_configured |-> SARVAM_API_KEY # None]

HealthBody ==
    [status            |-> <<"h","e","a","l","t","h","y">>,
     message           |-> <<"A","a","y","u","C","a","r","e"," ","P","O","C"," ","A","P","I"," ","i","s"," ","r","u","n","n","i","n","g","!">>,
     gemini_configured |-> IsTrue(GEMINI_API_KEY),
     sarvam_configured |-> IsTrue(SARVAM_API_KEY)]

health(r) ==
    /\ pc[r] = "enter" /\ endpoint[r] = "health"
    /\ Respond(r, Ok(HealthBody))
    /\ UNCHANGED <<globals, endpoint, local, calls>>

(***************************************************************************)
(* POST /api/speech-to-text (lines 71-125)                                 *)
(***************************************************************************)
\* str(e) of the HTTPException raised at line 108: the installed Starlette either
\* defines __str__ as "<status_code>: <detail>" or leaves Exception's, which is ""
StrHTTPException(status_code, detail) == {<<>>, IntStr(status_code) \o <<":"," ">> \o detail}

\* except Exception as e (lines 121-125), with the names bound before the raise
STT_Fail(r, bound, e) ==
    /\ local' = [local EXCEPT ![r] = Bind(@, [e |-> e] @@ bound)]
    /\ Respond(r, HTTPError(500, <<"F","a","i","l","e","d"," ","t","o"," ","c","o","n","v","e","r","t"," ","s","p","e","e","c","h"," ","t","o"," ","t","e","x","t",":"," ">> \o e))

\* lines 78-82: the key check, before the try
STT_Enter(r) ==
    /\ pc[r] = "enter" /\ endpoint[r] = "speech_to_text"
    /\ IF NotConfigured(SARVAM_API_KEY)
       THEN /\ Respond(r, HTTPError(500, SarvamKeyMissing))
            /\ UNCHANGED local
       ELSE /\ pc' = [pc EXCEPT ![r] = "read"]
            /\ UNCHANGED <<local, resp>>
    /\ UNCHANGED <<globals, endpoint, calls>>

\* lines 86-105: await audio.read(), then requests.post is called
STT_Read(r) ==
    /\ pc[r] = "read" /\ endpoint[r] = "speech_to_text"
    /\ local' = [local EXCEPT ![r] = Bind(@, [audio_content |-> local[r].audio.content])]
    /\ calls' = [calls EXCEPT ![r] =
                    Append(@, Call("transcription",
                                   [key  |-> SARVAM_API_KEY,
                                    file |-> local[r].audio]))]
    /\ pc' = [pc EXCEPT ![r] = "post"]
    /\ UNCHANGED <<globals, endpoint, resp>>

\* result.get(key, default) on the provider's JSON object
Get(result, key, default) == IF key \in DOMAIN result THEN result[key] ELSE default

\* lines 105-125: requests.post returns or raises, and the handler ends
STT_Post(r, Outcomes) ==
    /\ pc[r] = "post" /\ endpoint[r] = "speech_to_text"
    /\ \E o \in Outcomes :
          IF o.kind = "raise" THEN STT_Fail(r, <<>>, o.text)
          ELSE IF o.status_code # 200
          THEN \E e \in StrHTTPException(o.status_code, <<"S","a","r","v","a","m"," ","A","P","I"," ","e","r","r","o","r",":"," ">> \o o.text) :
                  STT_Fail(r, [response |-> o], e)
          ELSE IF ~o.is_json
          THEN STT_Fail(r, [response |-> o], <<"E","x","p","e","c","t","i","n","g"," ","v","a","l","u","e",":"," ","l","i","n","e"," ","1"," ","c","o","l","u","m","n"," ","1"," ","(","c","h","a","r"," ","0",")">>)
          ELSE /\ local' = [local EXCEPT ![r] = Bind(@, [response |-> o, result |-> o.json])]
               /\ Respond(r, Ok([success  |-> TRUE,
                                 text     |-> Get(o.json, "transcript", <<>>),
                                 language |-> Get(o.json, "language_code", <<"e","n">>)]))
    /\ UNCHANGED <<globals, endpoint, calls>>

(***************************************************************************)
(* POST /api/find-doctor (lines 129-305)                                   *)
(***************************************************************************)
\* except Exception as e (lines 301-305)
FD_Fail(r, e) ==
    /\ local' = [local EXCEPT ![r] = Bind(@, [e |-> e])]
    /\ Respond(r, HTTPError(500, <<"F","a","i","l","e","d"," ","t","o"," ","a","n","a","l","y","z","e"," ","s","y","m","p","t","o","m","s",":"," ">> \o e))

\* gemini_client.models.generate_content is called: the call is on the wire
FD_Issue(r, call, at) ==
    /\ calls' = [calls EXCEPT ![r] = Append(@, call)]
    /\ pc' = [pc EXCEPT ![r] = at]
    /\ UNCHANGED resp

\* lines 140-163: the key check, before the try, then the extraction call
FD_Enter(r) ==
    /\ pc[r] = "enter" /\ endpoint[r] = "find_doctor"
    /\ IF NotConfigured(GEMINI_API_KEY)
       THEN /\ Respond(r, HTTPError(500, GeminiKeyMissing))
            /\ UNCHANGED <<local, calls>>
       ELSE IF gemini_client = None
       THEN FD_Fail(r, NoAttribute(<<"m","o","d","e","l","s">>)) /\ UNCHANGED calls
       ELSE /\ FD_Issue(r, Call("extraction", [input |-> local[r].request.input]), "call1")
            /\ UNCHANGED local
    /\ UNCHANGED <<globals, endpoint>>

\* FD_Returned with a try/except around the single call: the error is noted, an
\* empty reply stands in, and the chain goes on
FD_Returned_Swallow(r, o, name, next) ==
    /\ local' = [local EXCEPT ![r] =
                    IF o.kind = "raise"
                    THEN Bind(@, [e |-> o.text] @@ [n \in {name} |-> [kind |-> "obj", text |-> Str(<<>>)]])
                    ELSE Bind(@, [n \in {name} |-> o.response])]
    /\ pc' = [pc EXCEPT ![r] = next]
    /\ UNCHANGED resp

\* a generate_content call has returned its response object or raised
FD_Returned(r, o, name, next) ==
    IF o.kind = "raise" THEN FD_Fail(r, o.text)
    ELSE /\ local' = [local EXCEPT ![r] = Bind(@, [n \in {name} |-> o.response])]
         /\ pc' = [pc EXCEPT ![r] = next]
         /\ UNCHANGED resp

\* line 160: response1
FD_Call1(r, Outcomes) ==
    /\ pc[r] = "call1" /\ endpoint[r] = "find_doctor"
    /\ \E o \in Outcomes : FD_Returned(r, o, "response1", "parse")
    /\ UNCHANGED <<globals, endpoint, calls>>

\* FD_Parse reading the reply from one module-level name that every request
\* assigns: the reply parsed is that of the first request that has one
FD_Parse_Shared(r) ==
    /\ pc[r] = "parse" /\ endpoint[r] = "find_doctor"
    /\ LET q == CHOOSE q \in DOMAIN pc :
                    /\ "response1" \in DOMAIN local[q]
                    /\ \A p \in DOMAIN pc : "response1" \in DOMAIN local[p] => q <= p
           extraction_text == local[q].response1.text
       IN
       IF extraction_text = None
       THEN FD_Fail(r, NoAttribute(<<"s","p","l","i","t">>)) /\ UNCHANGED calls
       ELSE LET f == ParseExtraction(extraction_text.val) IN
            /\ local' = [local EXCEPT ![r] = Bind(@, [extraction_text |-> extraction_text] @@ f)]
            /\ FD_Issue(r, Call("recommendation",
                                [symptoms |-> f.symptoms, location |-> f.location]), "call2")
    /\ UNCHANGED <<globals, endpoint>>

\* lines 164-212: the reply is parsed and the recommendation call is made
FD_Parse(r) ==
    /\ pc[r] = "parse" /\ endpoint[r] = "find_doctor"
    /\ LET extraction_text == local[r].response1.text IN
       IF extraction_text = None
       THEN FD_Fail(r, NoAttribute(<<"s","p","l","i","t">>)) /\ UNCHANGED calls
       ELSE LET f == ParseExtraction(extraction_text.val) IN
            /\ local' = [local EXCEPT ![r] = Bind(@, [extraction_text |-> extraction_text] @@ f)]
            /\ FD_Issue(r, Call("recommendation",
                                [symptoms |-> f.symptoms, location |-> f.location]), "call2")
    /\ UNCHANGED <<globals, endpoint>>

\* line 209: response2
FD_Call2(r, Outcomes) ==
    /\ pc[r] = "call2" /\ endpoint[r] = "find_doctor"
    /\ \E o \in Outcomes : FD_Returned(r, o, "response2", "classify")
    /\ UNCHANGED <<globals, endpoint, calls>>

\* lines 215-246: the doctor type is derived and the nearby lookup is made
FD_Classify(r) ==
    /\ pc[r] = "classify" /\ endpoint[r] = "find_doctor"
    /\ LET ai_response == local[r].response2.text IN
       IF ai_response = None
       THEN FD_Fail(r, NoAttribute(<<"l","o","w","e","r">>)) /\ UNCHANGED calls
       ELSE LET doctor_type == DoctorType(ai_response.val) IN
            /\ local' = [local EXCEPT ![r] =
                            Bind(@, [ai_response |-> ai_response, doctor_type |-> doctor_type])]
            /\ FD_Issue(r, Call("nearby",
                                [doctor_type |-> doctor_type,
                                 latitude    |-> local[r].latitude,
                                 longitude   |-> local[r].longitude]), "call3")
    /\ UNCHANGED <<globals, endpoint>>

\* line 235: maps_response
FD_Call3(r, Outcomes) ==
    /\ pc[r] = "call3" /\ endpoint[r] = "find_doctor"
    /\ \E o \in Outcomes : FD_Returned(r, o, "maps_response", "nearby")
    /\ UNCHANGED <<globals, endpoint, calls>>

\* lines 292-299
FindDoctorBody(l, nearby_doctors) ==
    [success        |-> TRUE,
     doctor_type    |-> l.doctor_type,
     recommendation |-> l.ai_response.val,
     location       |-> l.location,
     symptoms       |-> l.symptoms,
     nearby_doctors |-> nearby_doctors]

\* lines 248-299: the nearby doctors are collected and the handler returns
FD_Nearby(r) ==
    /\ pc[r] = "nearby" /\ endpoint[r] = "find_doctor"
    /\ LET nearby_doctors ==
               NearbyDoctors(local[r].maps_response, local[r].doctor_type, local[r].location)
       IN  /\ local' = [local EXCEPT ![r] = Bind(@, [nearby_doctors |-> nearby_doctors])]
           /\ Respond(r, Ok(FindDoctorBody(local[r], nearby_doctors)))
    /\ UNCHANGED <<globals, endpoint, calls>>

(***************************************************************************)
(* What the providers may answer                                           *)
(***************************************************************************)
\* a generate_content response whose .text is the given str, or None
Reply(text) == [kind |-> "reply", response |-> [kind |-> "obj", text |-> text]]

\* a requests.Response of the transcription provider
Http(status_code, text, is_json, json) ==
    [kind |-> "http", status_code |-> status_code, text |-> text, is_json |-> is_json, json |-> json]

\* all sequences over S of length at most n
SeqsUpTo(S, n) == UNION {[1..k -> S] : k \in 0..n}

Endpoints == {"health", "speech_to_text", "find_doctor"}

Inputs == {<<"f","e","v","e","r"," ","i","n"," ","P","u","n","e">>}

TranscriptionOutcomes ==
    {Raised(<<"C","o","n","n","e","c","t","i","o","n"," ","r","e","f","u","s","e","d">>),
     Http(429, <<"q","u","o","t","a">>, TRUE, [error |-> <<"q","u","o","t","a">>]),
     Http(503, <<"d","o","w","n">>, FALSE, <<>>),
     Http(200, <<"{","}">>, TRUE, <<>>),
     Http(200, <<"<","h","t","m","l",">">>, FALSE, <<>>),
     Http(200, <<"{",".",".","}">>, TRUE, [transcript |-> <<"b","u","k","h","a","r"," ","h","a","i">>, language_code |-> <<"h","i">>])}

ExtractionOutcomes ==
    {Raised(<<"4","2","9"," ","R","E","S","O","U","R","C","E","_","E","X","H","A","U","S","T","E","D">>),
     Reply(None),
     Reply(Str(<<"S","Y","M","P","T","O","M","S",":"," ","c","o","u","g","h","\n","L","O","C","A","T","I","O","N",":"," ","N","e","w"," ","D","e","l","h","i","\n","L","A","T","I","T","U","D","E",":"," ","2","8",".","6","\n","L","O","N","G","I","T","U","D","E",":"," ","7","7",".","2">>)),
     Reply(Str(<<"L","O","C","A","T","I","O","N",":"," ","P","u","n","e">>))}

RecommendationOutcomes ==
    {Raised(<<"5","0","3"," ","U","N","A","V","A","I","L","A","B","L","E">>),
     Reply(None),
     Reply(Str(<<"D","o","c","t","o","r"," ","T","y","p","e",":"," ","C","a","r","d","i","o","l","o","g","i","s","t">>))}

\* a grounding chunk with map data, one from a web source, and the response around them
MapsChunk(title, uri) == [kind |-> "obj", maps |-> [kind |-> "obj", title |-> Str(title), uri |-> Str(uri)]]

WebChunk == [kind |-> "obj", maps |-> None, web |-> [kind |-> "obj"]]

WithChunks(chunks) ==
    [kind |-> "reply",
     response |-> [kind |-> "obj",
                   candidates |-> List(<<[kind |-> "obj",
                                          grounding_metadata |->
                                              [kind |-> "obj", grounding_chunks |-> chunks]]>>)]]

PlaceA == MapsChunk(<<"A"," ","C","l","i","n","i","c">>, <<"h","t","t","p","s",":","/","/","m","a","p","s",".","g","o","o","g","l","e",".","c","o","m","/","?","c","i","d","=","1">>)

PlaceB == MapsChunk(<<"B"," ","H","o","s","p","i","t","a","l">>, <<"h","t","t","p","s",":","/","/","m","a","p","s",".","g","o","o","g","l","e",".","c","o","m","/","?","c","i","d","=","2">>)

NearbyOutcomes ==
    {Raised(<<"4","0","0"," ","I","N","V","A","L","I","D","_","A","R","G","U","M","E","N","T">>),
     [kind |-> "reply", response |-> [kind |-> "obj", candidates |-> None]],
     WithChunks(List(<<PlaceA, WebChunk, PlaceB>>))}

(***************************************************************************)
(* The server: NumReqs requests in flight at once, any endpoint each       *)
(***************************************************************************)
NumReqs == 2

Init == Startup(1..NumReqs)

Next ==
    \E r \in 1..NumReqs :
        \/ Accept(r, Endpoints, Inputs)
        \/ health(r)
        \/ STT_Enter(r)
        \/ STT_Read(r)
        \/ STT_Post(r, TranscriptionOutcomes)
        \/ FD_Enter(r)
        \/ FD_Call1(r, ExtractionOutcomes)
        \/ FD_Parse(r)
        \/ FD_Call2(r, RecommendationOutcomes)
        \/ FD_Classify(r)
        \/ FD_Call3(r, NearbyOutcomes)
        \/ FD_Nearby(r)
        \/ Finish(r)

Spec == Init /\ [][Next]_vars

(***************************************************************************)
(* One find-doctor request at a time with the key configured, and every    *)
(* extraction reply of at most MaxLines lines drawn from ExtractLines      *)
(***************************************************************************)
Solo == {1}

InitFind == Startup(Solo) /\ IsTrue(GEMINI_API_KEY) /\ SARVAM_API_KEY = None

MaxLines == 2

ExtractLines ==
    {<<"S","Y","M","P","T","O","M","S",":"," ","f","e","v","e","r">>,
     <<"s","y","m","p","t","o","m","s",":"," ","f","l","u">>,
     <<"L","O","C","A","T","I","O","N",":"," ","N","e","w"," ","D","e","l","h","i">>,
     <<" ","L","A","T","I","T","U","D","E",":"," ","2","8",".","6"," ">>,
     <<"L","A","T","I","T","U","D","E",":"," ","-","3","3",".","8","7">>,
     <<"L","A","T","I","T","U","D","E",":"," ","n","o","r","t","h">>,
     <<"L","a","t","i","t","u","d","e",":"," ","1","2",".","5">>,
     <<"L","O","N","G","I","T","U","D","E",":"," ","7","7",".","2">>,
     <<"L","O","N","G","I","T","U","D","E",":"," ","7","x">>,
     <<"s","e","e"," ","L","O","N","G","I","T","U","D","E",":"," ","5">>,
     <<>>}

ExtractionTexts == {Join(ls, <<"\n">>) : ls \in SeqsUpTo(ExtractLines, MaxLines)}

NextExtract ==
    \E r \in Solo :
        \/ Accept(r, {"find_doctor"}, Inputs)
        \/ FD_Enter(r)
        \/ FD_Call1(r, {Reply(Str(t)) : t \in ExtractionTexts})
        \/ FD_Parse(r)
        \/ FD_Call2(r, {Reply(Str(<<"D","o","c","t","o","r"," ","T","y","p","e",":"," ","G","e","n","e","r","a","l"," ","P","h","y","s","i","c","i","a","n">>))})
        \/ FD_Classify(r)
        \/ FD_Call3(r, {WithChunks(List(<<>>))})
        \/ FD_Nearby(r)
        \/ Finish(r)

SpecExtract == InitFind /\ [][NextExtract]_vars

(***************************************************************************)
(* The same, with every recommendation reply of at most MaxFragments       *)
(* fragments drawn from Fragments                                          *)
(***************************************************************************)
MaxFragments == 2

Fragments ==
    {<<"C","a","r","d","i","o","l","o","g","i","s","t">>, <<"c","A","r","D","i","O","l","O","g","I","s","T">>, <<"c","a","r","d","i","o">>, <<"l","o","g","i","s","t">>, <<"D","E","R","M","A","T","O","L","O","G","I","S","T">>,
     <<"o","r","t","h","o","p","e","d","i","c">>, <<"N","e","u","r","o","l","o","g","i","s","t">>, <<"E","N","T">>, <<"E","a","r">>, <<"P","e","d","i","a","t","r","i","c","i","a","n">>, <<"P","E","D","I","A","T","R","I","C","I","A","N">>,
     <<"G","e","n","e","r","a","l"," ","P","h","y","s","i","c","i","a","n">>, <<"W","h","a","t"," ","t","o"," ","m","e","n","t","i","o","n">>, <<" ","o","r"," ">>}

RecommendationTexts == {Join(fs, <<>>) : fs \in SeqsUpTo(Fragments, MaxFragments)}

NextClassify ==
    \E r \in Solo :
        \/ Accept(r, {"find_doctor"}, Inputs)
        \/ FD_Enter(r)
        \/ FD_Call1(r, {Reply(Str(<<"L","O","C","A","T","I","O","N",":"," ","P","u","n","e">>))})
        \/ FD_Parse(r)
        \/ FD_Call2(r, {Reply(Str(t)) : t \in RecommendationTexts})
        \/ FD_Classify(r)
        \/ FD_Call3(r, {WithChunks(List(<<>>))})
        \/ FD_Nearby(r)
        \/ Finish(r)

SpecClassify == InitFind /\ [][NextClassify]_vars

(***************************************************************************)
(* The same, with every nearby reply: the shapes without a chunk list, and *)
(* every chunk list of at most MaxChunks chunks drawn from ChunkKinds      *)
(***************************************************************************)
MaxChunks == 6

ChunkKinds == {WebChunk, PlaceA, PlaceB}

Obj(fields) == [kind |-> "obj"] @@ fields

NoChunkList ==
    {[kind |-> "reply", response |-> Obj(<<>>)],
     [kind |-> "reply", response |-> Obj([candidates |-> None])],
     [kind |-> "reply", response |-> Obj([candidates |-> List(<<>>)])],
     [kind |-> "reply", response |-> Obj([candidates |-> List(<<None>>)])],
     [kind |-> "reply", response |-> Obj([candidates |-> List(<<Obj([grounding_metadata |-> None])>>)])],
     [kind |-> "reply",
      response |-> Obj([candidates |-> List(<<Obj([grounding_metadata |-> Obj(<<>>)])>>)])],
     WithChunks(None)}

OddChunks ==
    {<<Obj(<<>>)>>,
     <<Obj([maps |-> Obj(<<>>)])>>,
     <<Obj([maps |-> Obj([title |-> None, uri |-> None])]), PlaceA>>}

NearbyReplies ==
    NoChunkList \cup {WithChunks(List(cs)) : cs \in SeqsUpTo(ChunkKinds, MaxChunks) \cup OddChunks}

NextNearby ==
    \E r \in Solo :
        \/ Accept(r, {"find_doctor"}, Inputs)
        \/ FD_Enter(r)
        \/ FD_Call1(r, {Reply(Str(<<"L","O","C","A","T","I","O","N",":"," ","P","u","n","e">>)),
                        Reply(Str(<<"L","O","C","A","T","I","O","N",":"," ","N","a","v","i"," "," ","M","u","m","b","a","i"," ","E","a","s","t">>))})
        \/ FD_Parse(r)
        \/ FD_Call2(r, {Reply(Str(<<"D","o","c","t","o","r"," ","T","y","p","e",":"," ","G","e","n","e","r","a","l"," ","P","h","y","s","i","c","i","a","n">>)),
                        Reply(Str(<<"S","e","e"," ","a"," ","c","a","r","d","i","o","l","o","g","i","s","t">>))})
        \/ FD_Classify(r)
        \/ FD_Call3(r, NearbyReplies)
        \/ FD_Nearby(r)
        \/ Finish(r)

SpecNearby == InitFind /\ [][NextNearby]_vars

(***************************************************************************)
(* Properties of the server                                                *)
(***************************************************************************)
\* a key is set to a non-empty value
KeySet(key) == key # None /\ key # Str(<<>>)

Done(r, ep) == pc[r] = "done" /\ endpoint[r] = ep

Has(r, name) == name \in DOMAIN local[r]

\* C1: in speech-to-text with the key configured, a provider answer with status S other
\* than 200 and body B ends in an error response of status S whose detail embeds B
C1_ProviderStatusRelayed ==
    \A r \in DOMAIN pc :
        (/\ Done(r, "speech_to_text") /\ KeySet(SARVAM_API_KEY)
         /\ Has(r, "response") /\ local[r].response.status_code # 200)
        => /\ resp[r].status_code = local[r].response.status_code
           /\ Contains(resp[r].detail, local[r].response.text)

\* C2: with the endpoint's key not configured, a POST request makes no outbound call and
\* reads no upload at any point, and ends in status 500 with the fixed configuration message
C2_MissingKeyFailsBeforeAnyCall ==
    \A r \in DOMAIN pc :
        /\ (endpoint[r] = "speech_to_text" /\ ~KeySet(SARVAM_API_KEY))
           => /\ calls[r] = <<>> /\ ~Has(r, "audio_content")
              /\ pc[r] \in {"enter", "done"}
              /\ pc[r] = "done" => resp[r] = [status_code |-> 500, detail |-> SarvamKeyMissing]
        /\ (endpoint[r] = "find_doctor" /\ ~KeySet(GEMINI_API_KEY))
           => /\ calls[r] = <<>>
              /\ pc[r] \in {"enter", "done"}
              /\ pc[r] = "done" => resp[r] = [status_code |-> 500, detail |-> GeminiKeyMissing]

\* both endpoints have failed on a missing key, one unset and one empty
C2_Witness ==
    /\ SARVAM_API_KEY = Str(<<>>) /\ GEMINI_API_KEY = None
    /\ \E r, q \in DOMAIN pc :
          /\ Done(r, "speech_to_text") /\ resp[r].status_code = 500
          /\ Done(q, "find_doctor") /\ resp[q].status_code = 500

CallOrder == <<"extraction", "recommendation", "nearby">>

C3_State ==
    \A r \in DOMAIN pc :
        (endpoint[r] = "find_doctor" /\ KeySet(GEMINI_API_KEY))
        => /\ Len(calls[r]) <= 3
           /\ \A i \in 1..Len(calls[r]) : calls[r][i].api = CallOrder[i]
           /\ Has(r, "e")
              => /\ pc[r] = "done"
                 /\ resp[r].status_code = 500
                 /\ "body" \notin DOMAIN resp[r]
                 /\ Contains(resp[r].detail, local[r].e)

C3_Step ==
    \A r \in DOMAIN pc :
        /\ (~Has(r, "e") /\ "e" \in DOMAIN local'[r]) => calls'[r] = calls[r]
        /\ Has(r, "e") => calls'[r] \in {calls[r], <<>>} /\ pc'[r] \in {"done", "idle"}
        /\ pc[r] = "done" => resp'[r] \in {resp[r], None}

\* C3: in find-doctor with the key configured, the calls made are extraction, recommendation,
\* nearby in that order and each at most once; the step in which an exception with text E is
\* caught makes no call, no call follows it, and the request ends in status 500, without a
\* success body, with a detail that embeds E
C3_ChainStopsAtFirstException == [](C3_State) /\ [][C3_Step]_vars

\* the recommendation call raised: two calls were made and the request failed
C3_Witness ==
    \E r \in DOMAIN pc :
        /\ Done(r, "find_doctor") /\ Has(r, "e") /\ Has(r, "response1") /\ ~Has(r, "response2")
        /\ local[r].e = <<"5","0","3"," ","U","N","A","V","A","I","L","A","B","L","E">>
        /\ Len(calls[r]) = 2

\* the response find_doctor gives for the fields f parsed from the extraction reply, the
\* doctor type dt derived from the recommendation reply, and the two later replies
FindDoctorResult(f, dt, recommendation, maps_response) ==
    Ok([success        |-> TRUE,
        doctor_type    |-> dt,
        recommendation |-> recommendation,
        location       |-> f.location,
        symptoms       |-> f.symptoms,
        nearby_doctors |-> NearbyDoctors(maps_response, dt, f.location)])

C8_State ==
    \A r \in DOMAIN pc :
        endpoint[r] = "find_doctor"
        => LET f  == ParseExtraction(local[r].response1.text.val)
               dt == DoctorType(local[r].response2.text.val)
           IN
           /\ Has(r, "location")
              => /\ local[r].response1.text # None
                 /\ local[r].symptoms = f.symptoms /\ local[r].location = f.location
                 /\ local[r].latitude = f.latitude /\ local[r].longitude = f.longitude
                 /\ calls[r][2].args = [symptoms |-> f.symptoms, location |-> f.location]
           /\ Has(r, "doctor_type")
              => /\ local[r].response2.text # None
                 /\ local[r].doctor_type = dt
                 /\ calls[r][3].args =
                       [doctor_type |-> dt, latitude |-> f.latitude, longitude |-> f.longitude]
           /\ (pc[r] = "done" /\ resp[r].status_code = 200)
              => resp[r] = FindDoctorResult(f, dt, local[r].response2.text.val,
                                            local[r].maps_response)

\* the requests whose locals, calls, response or position the step changes
Touched ==
    {r \in DOMAIN pc : local'[r] # local[r] \/ calls'[r] # calls[r] \/ resp'[r] # resp[r] \/ pc'[r] # pc[r]}

C8_Step == globals' = globals /\ Cardinality(Touched) <= 1

\* C8: whatever the interleaving, the fields and the response of a find-doctor request are
\* those computed from the replies to its own calls; a step of one request changes nothing
\* of another, and the keys and the client are never written after startup
C8_RequestsAreIsolated == [](C8_State) /\ [][C8_Step]_vars

\* two find-doctor requests in flight that extracted different locations
C8_Witness ==
    \E r, q \in DOMAIN pc :
        /\ endpoint[r] = "find_doctor" /\ endpoint[q] = "find_doctor"
        /\ Has(r, "location") /\ Has(q, "location")
        /\ local[r].location # local[q].location
        /\ pc[r] = "done" /\ resp[r].status_code = 200

\* C9: a health request makes no call and ends in status 200 with gemini_configured and
\* sarvam_configured true exactly when the key is set to a non-empty value
C9_HealthReflectsKeys ==
    \A r \in DOMAIN pc :
        endpoint[r] = "health"
        => /\ calls[r] = <<>>
           /\ pc[r] \in {"enter", "done"}
           /\ pc[r] = "done"
              => /\ resp[r].status_code = 200
                 /\ resp[r].body.gemini_configured = KeySet(GEMINI_API_KEY)
                 /\ resp[r].body.sarvam_configured = KeySet(SARVAM_API_KEY)

\* health answered, with one key empty and one set, after another request failed upstream
C9_Witness ==
    \E r, q \in DOMAIN pc :
        /\ Done(r, "health") /\ resp[r].body.gemini_configured /\ ~resp[r].body.sarvam_configured
        /\ SARVAM_API_KEY = Str(<<>>)
        /\ Done(q, "find_doctor") /\ Has(q, "e")

(***************************************************************************)
(* Properties of the parsing in find_doctor                                *)
(***************************************************************************)
\* the reply to the extraction call of request r, and its lines after trimming
ExtractionReply(r) == local[r].response1.text.val

TrimmedLines(text) == [i \in 1..Len(Split(text, "\n")) |-> Strip(Split(text, "\n")[i])]

\* the positions of the lines that start with the label
LabelLines(text, label) ==
    {i \in 1..Len(TrimmedLines(text)) : StartsWith(TrimmedLines(text)[i], label)}

\* C6: a field whose label line is absent from the extraction reply, labels in another letter
\* case not counting, has its default in the locals, in the recommendation call and in the
\* response: 19.0760, 72.8777, "Mumbai", "General symptoms"
C6_AbsentLabelKeepsDefault ==
    \A r \in DOMAIN pc :
        Has(r, "location")
        => LET t == ExtractionReply(r) IN
           /\ LabelLines(t, <<"L","A","T","I","T","U","D","E",":">>) = {} => local[r].latitude = 190760
           /\ LabelLines(t, <<"L","O","N","G","I","T","U","D","E",":">>) = {} => local[r].longitude = 728777
           /\ LabelLines(t, <<"L","O","C","A","T","I","O","N",":">>) = {}
              => /\ local[r].location = <<"M","u","m","b","a","i">>
                 /\ calls[r][2].args.location = <<"M","u","m","b","a","i">>
                 /\ pc[r] = "done" => resp[r].body.location = <<"M","u","m","b","a","i">>
           /\ LabelLines(t, <<"S","Y","M","P","T","O","M","S",":">>) = {}
              => /\ local[r].symptoms = <<"G","e","n","e","r","a","l"," ","s","y","m","p","t","o","m","s">>
                 /\ calls[r][2].args.symptoms = <<"G","e","n","e","r","a","l"," ","s","y","m","p","t","o","m","s">>
                 /\ pc[r] = "done" => resp[r].body.symptoms = <<"G","e","n","e","r","a","l"," ","s","y","m","p","t","o","m","s">>

\* a reply whose only latitude and symptoms lines carry lower-case letters in the label
C6_Witness ==
    \E r \in DOMAIN pc :
        /\ Done(r, "find_doctor") /\ resp[r].status_code = 200
        /\ ExtractionReply(r) = <<"s","y","m","p","t","o","m","s",":"," ","f","l","u","\n","L","a","t","i","t","u","d","e",":"," ","1","2",".","5">>
        /\ local[r].latitude = 190760
        /\ resp[r].body.symptoms = <<"G","e","n","e","r","a","l"," ","s","y","m","p","t","o","m","s">>

\* the value of a label line: the line with the label taken out, trimmed
LineValue(line, label) == Strip(Replace(line, label, <<>>))

\* the positions of the label lines whose value float() accepts, and those it rejects
NumericLines(text, label) ==
    {i \in LabelLines(text, label) : Float(LineValue(TrimmedLines(text)[i], label)).ok}

NonNumericLines(text, label) == LabelLines(text, label) \ NumericLines(text, label)

Last(S) == CHOOSE i \in S : \A j \in S : j <= i

\* the value of the last label line that float() accepts, the default when there is none
LastNumeric(text, label, default) ==
    IF NumericLines(text, label) = {} THEN default
    ELSE Float(LineValue(TrimmedLines(text)[Last(NumericLines(text, label))], label)).val

\* C7 as claimed: when a LATITUDE (LONGITUDE) line carries a non-numeric value, the
\* latitude (longitude) of the nearby lookup is the default
C7_NonNumericGivesDefault ==
    \A r \in DOMAIN pc :
        Has(r, "doctor_type")
        => LET t == ExtractionReply(r) IN
           /\ NonNumericLines(t, <<"L","A","T","I","T","U","D","E",":">>) # {}
              => calls[r][3].args.latitude = 190760
           /\ NonNumericLines(t, <<"L","O","N","G","I","T","U","D","E",":">>) # {}
              => calls[r][3].args.longitude = 728777

\* C7 as amended: such a line does not fail the request (the reply is parsed to the end and
\* the recommendation call is made) and leaves the field as it was, so
\* the nearby lookup uses the value of the last line of that label that float() accepts,
\* and the default when no line of that label is numeric
C7_NonNumericLineIsSkipped ==
    \A r \in DOMAIN pc :
        /\ (Has(r, "response1") /\ local[r].response1.text # None /\ pc[r] # "parse")
           => (Has(r, "latitude") /\ Len(calls[r]) >= 2)
        /\ Has(r, "doctor_type")
           => LET t == ExtractionReply(r) IN
              /\ calls[r][3].args.latitude = LastNumeric(t, <<"L","A","T","I","T","U","D","E",":">>, 190760)
              /\ calls[r][3].args.longitude = LastNumeric(t, <<"L","O","N","G","I","T","U","D","E",":">>, 728777)

\* a numeric latitude line followed by a non-numeric one: the lookup uses -33.87
C7_Witness ==
    \E r \in DOMAIN pc :
        /\ Has(r, "doctor_type")
        /\ ExtractionReply(r) = <<"L","A","T","I","T","U","D","E",":"," ","-","3","3",".","8","7","\n","L","A","T","I","T","U","D","E",":"," ","n","o","r","t","h">>
        /\ calls[r][3].args.latitude = 0 - 338700

\* the letter c is the letter k of a keyword, in either case
SameLetter(c, k) == c = k \/ \E n \in 1..26 : LowerLetters[n] = k /\ UpperLetters[n] = c

\* the keyword occurs somewhere in the text, letter case ignored
Occurs(kw, text) ==
    \E i \in 0..(Len(text) - Len(kw)) : \A j \in 1..Len(kw) : SameLetter(text[i + j], kw[j])

\* the ordered keyword list and the doctor type each entry selects
KeywordTable ==
    <<[kws |-> {<<"c","a","r","d","i","o","l","o","g","i","s","t">>},  type |-> <<"C","a","r","d","i","o","l","o","g","i","s","t">>],
      [kws |-> {<<"d","e","r","m","a","t","o","l","o","g","i","s","t">>}, type |-> <<"D","e","r","m","a","t","o","l","o","g","i","s","t">>],
      [kws |-> {<<"o","r","t","h","o","p","e","d","i","c">>},    type |-> <<"O","r","t","h","o","p","e","d","i","c">>],
      [kws |-> {<<"n","e","u","r","o","l","o","g","i","s","t">>},   type |-> <<"N","e","u","r","o","l","o","g","i","s","t">>],
      [kws |-> {<<"e","n","t">>, <<"e","a","r">>},  type |-> <<"E","N","T"," ","S","p","e","c","i","a","l","i","s","t">>],
      [kws |-> {<<"p","e","d","i","a","t","r","i","c","i","a","n">>},  type |-> <<"P","e","d","i","a","t","r","i","c","i","a","n">>]>>

Matches(text) == {i \in 1..Len(KeywordTable) : \E kw \in KeywordTable[i].kws : Occurs(kw, text)}

FirstMatchType(text) ==
    IF Matches(text) = {} THEN <<"G","e","n","e","r","a","l"," ","P","h","y","s","i","c","i","a","n">>
    ELSE KeywordTable[CHOOSE i \in Matches(text) : \A j \in Matches(text) : i <= j].type

\* C4: doctor_type is the type of the first entry of the keyword list one of whose keywords
\* occurs in the recommendation reply, letter case ignored, and "General Physician" when
\* none occurs; it is what the nearby call asks for and what the response carries
C4_FirstKeywordDecidesType ==
    \A r \in DOMAIN pc :
        Has(r, "doctor_type")
        => LET t == local[r].response2.text.val IN
           /\ local[r].doctor_type = FirstMatchType(t)
           /\ local[r].doctor_type \in
                 {KeywordTable[i].type : i \in 1..Len(KeywordTable)} \cup {<<"G","e","n","e","r","a","l"," ","P","h","y","s","i","c","i","a","n">>}
           /\ Occurs(<<"c","a","r","d","i","o","l","o","g","i","s","t">>, t) => local[r].doctor_type = <<"C","a","r","d","i","o","l","o","g","i","s","t">>
           /\ local[r].doctor_type = <<"P","e","d","i","a","t","r","i","c","i","a","n">>
              => ~Occurs(<<"e","n","t">>, t) /\ ~Occurs(<<"e","a","r">>, t)
           /\ calls[r][3].args.doctor_type = local[r].doctor_type
           /\ (pc[r] = "done" /\ resp[r].status_code = 200)
              => resp[r].body.doctor_type = local[r].doctor_type

\* a reply naming a pediatrician in upper case and then "What to mention" gives
\* "ENT Specialist"
C4_Witness ==
    \E r \in DOMAIN pc :
        /\ Done(r, "find_doctor") /\ resp[r].status_code = 200
        /\ local[r].response2.text.val = <<"P","E","D","I","A","T","R","I","C","I","A","N","W","h","a","t"," ","t","o"," ","m","e","n","t","i","o","n">>
        /\ resp[r].body.doctor_type = <<"E","N","T"," ","S","p","e","c","i","a","l","i","s","t">>

(***************************************************************************)
(* Properties of the nearby doctors                                        *)
(***************************************************************************)
\* the grounding chunk list of the nearby reply of request r, empty when there is none
UpstreamChunks(r) == ChunksOf(local[r].maps_response)

Succeeded(r) == Done(r, "find_doctor") /\ resp[r].status_code = 200

PlusForSpace(s) == [i \in 1..Len(s) |-> IF s[i] = " " THEN "+" ELSE s[i]]

\* C5: when the nearby reply carries no grounding entry, nearby_doctors is one entry, whose
\* url is the search URL of doctor_type and of the location with "+" for every space, and
\* whose name and address are built from the same doctor_type and location
C5_ZeroEntriesGiveFallback ==
    \A r \in DOMAIN pc :
        (Succeeded(r) /\ UpstreamChunks(r) = <<>>)
        => LET nd  == resp[r].body.nearby_doctors
               dt  == resp[r].body.doctor_type
               loc == resp[r].body.location
           IN  /\ Len(nd) = 1
               /\ nd[1].url = Str(<<"h","t","t","p","s",":","/","/","w","w","w",".","g","o","o","g","l","e",".","c","o","m","/","m","a","p","s","/","s","e","a","r","c","h","/">> \o dt \o <<"+","n","e","a","r","+">>
                                     \o PlusForSpace(loc))
               /\ nd[1].name = Str(<<"S","e","a","r","c","h"," ">> \o dt \o <<" ","i","n"," ">> \o loc)
               /\ nd[1].address = loc
               /\ dt = local[r].doctor_type /\ loc = local[r].location

\* no candidates at all, and a location with several spaces
C5_Witness ==
    \E r \in DOMAIN pc :
        /\ Succeeded(r)
        /\ local[r].maps_response = [kind |-> "obj", candidates |-> None]
        /\ resp[r].body.location = <<"N","a","v","i"," "," ","M","u","m","b","a","i"," ","E","a","s","t">>
        /\ resp[r].body.doctor_type = <<"C","a","r","d","i","o","l","o","g","i","s","t">>

\* the positions of the chunks that carry map data
MapPositions(chunks) == {i \in 1..Len(chunks) : ChunkHasMaps(chunks[i])}

\* the i-th smallest element of a set of numbers
RECURSIVE Nth(_, _)
Nth(S, i) ==
    LET m == CHOOSE x \in S : \A y \in S : x <= y
    IN  IF i = 1 THEN m ELSE Nth(S \ {m}, i - 1)

\* nearby_doctors is exactly the entries at the positions P of the chunk list, in order, each
\* with the title as name and the URI as url (the placeholders when the attribute is missing)
IsGroundedAt(nd, chunks, P) ==
    /\ Len(nd) = Cardinality(P)
    /\ \A i \in 1..Len(nd) :
          LET maps == chunks[Nth(P, i)].maps IN
          /\ nd[i].name = IF "title" \in DOMAIN maps THEN maps.title ELSE Str(<<"M","e","d","i","c","a","l"," ","C","e","n","t","e","r">>)
          /\ nd[i].url = IF "uri" \in DOMAIN maps THEN maps.uri ELSE Str(<<>>)

IsFallback(nd) == Len(nd) = 1 /\ nd[1].distance = <<"C","l","i","c","k"," ","t","o"," ","s","e","a","r","c","h">>

\* C10 as claimed: between 1 and 5 entries; with map data at any position of the grounding
\* list, the entries are grounded ones in upstream order and the fallback is not returned
C10_AnyPositionGrounded ==
    \A r \in DOMAIN pc :
        Succeeded(r)
        => LET nd == resp[r].body.nearby_doctors
               cs == UpstreamChunks(r)
           IN  /\ Len(nd) \in 1..5
               /\ MapPositions(cs) # {}
                  => /\ ~IsFallback(nd)
                     /\ \E P \in SUBSET MapPositions(cs) : IsGroundedAt(nd, cs, P)

\* C10 as amended: between 1 and 5 entries; with map data among the first five grounding
\* entries, the entries are exactly the map-data entries among those five, in upstream
\* order, and the fallback is not returned; otherwise the fallback alone is returned
C10_FirstFiveGrounded ==
    \A r \in DOMAIN pc :
        Succeeded(r)
        => LET nd    == resp[r].body.nearby_doctors
               cs    == UpstreamChunks(r)
               first == MapPositions(cs) \cap (1..5)
           IN  /\ Len(nd) \in 1..5
               /\ first # {} => ~IsFallback(nd) /\ IsGroundedAt(nd, cs, first)
               /\ first = {} => IsFallback(nd)

\* six chunks, the first without map data: four grounded entries, the sixth chunk left out
C10_Witness ==
    \E r \in DOMAIN pc :
        /\ Succeeded(r)
        /\ UpstreamChunks(r) = <<WebChunk, PlaceA, PlaceB, PlaceB, PlaceA, PlaceA>>
        /\ Len(resp[r].body.nearby_doctors) = 4
        /\ resp[r].body.nearby_doctors[4].name = Str(<<"A"," ","C","l","i","n","i","c">>)

====
